---------------------------- MODULE Spec2Model ----------------------------
(***************************************************************************)
(* Model of mazie_runtime.py: the immutable value type MazieNum with its   *)
(* division mode MazieMode, the coercion _as_num, the arithmetic and       *)
(* reflected operators, equality, the dataclass-generated hash, and the    *)
(* constructor M.                                                          *)
(*                                                                         *)
(* The program is a library of pure functions.  It is driven here by a     *)
(* calling session that holds one MazieNum (acc), applies one operator per *)
(* step to it with an operand drawn from the caller's objects, records the *)
(* call and its outcome (last) and keeps a successful arithmetic result as *)
(* the new acc, so that results are chained and reused as operands.        *)
(*                                                                         *)
(* Floats.  A Python float is one of: a finite value, kept as the exact    *)
(* fraction n/d in lowest terms (+0.0 is 0/1); -0.0; +inf; -inf; nan.      *)
(* Finite results are kept only while |n| <= MaxNum and d <= MaxDen, a     *)
(* range in which the model's arithmetic neither overflows nor underflows; *)
(* the rounding of a double is not modelled.  The special values follow    *)
(* IEEE-754 (signed zeros, inf - inf = nan, 0 * inf = nan, nan # nan).     *)
(***************************************************************************)
EXTENDS Integers, Sequences, FiniteSets, TLC

VARIABLES acc, last

vars == <<acc, last>>

\* ------------------------------------------------------------------ bounds

\* Largest numerator magnitude and denominator of a finite float kept in acc.
MaxNum == 4
MaxDen == 2
\* Plain int and float operands of the caller range over -MaxArg..MaxArg.
MaxArg == 2

\* ------------------------------------------------------------------ floats

Abs(n) == IF n < 0 THEN -n ELSE n

RECURSIVE Gcd(_, _)
Gcd(a, b) == IF b = 0 THEN a ELSE Gcd(b, a % b)

\* The finite float n/d (d > 0), in lowest terms.  A zero is +0.0.
Fin(n, d) ==
    LET g == Gcd(Abs(n), d)
    IN  [k |-> "fin", n |-> n \div g, d |-> d \div g]

PZero == [k |-> "fin", n |-> 0, d |-> 1]
NZero == [k |-> "nzero", n |-> 0, d |-> 1]
PInf  == [k |-> "pinf", n |-> 0, d |-> 1]
NInf  == [k |-> "ninf", n |-> 0, d |-> 1]
NaN   == [k |-> "nan", n |-> 0, d |-> 1]

IsNaN(f)  == f.k = "nan"
IsInf(f)  == f.k \in {"pinf", "ninf"}
\* Python's f == 0.0: both zeros.
IsZero(f) == f.k = "nzero" \/ (f.k = "fin" /\ f.n = 0)
\* The sign bit of a float that is not nan.
Negative(f) == f.k \in {"nzero", "ninf"} \/ (f.k = "fin" /\ f.n < 0)

SignedZero(neg) == IF neg THEN NZero ELSE PZero
SignedInf(neg)  == IF neg THEN NInf ELSE PInf

\* Python's float == float.
FEq(a, b) ==
    IF IsNaN(a) \/ IsNaN(b) THEN FALSE
    ELSE IF IsZero(a) /\ IsZero(b) THEN TRUE
    ELSE a = b

\* Python's -f.
FNeg(f) ==
    CASE f.k = "nan"   -> NaN
      [] f.k = "pinf"  -> NInf
      [] f.k = "ninf"  -> PInf
      [] f.k = "nzero" -> PZero
      [] OTHER         -> IF f.n = 0 THEN NZero ELSE Fin(-f.n, f.d)

\* Python's a + b.
FAdd(a, b) ==
    IF IsNaN(a) \/ IsNaN(b) THEN NaN
    ELSE IF IsInf(a) /\ IsInf(b) THEN (IF a = b THEN a ELSE NaN)
    ELSE IF IsInf(a) THEN a
    ELSE IF IsInf(b) THEN b
    ELSE IF IsZero(a) /\ IsZero(b)
         THEN SignedZero(Negative(a) /\ Negative(b))
    ELSE IF IsZero(a) THEN b
    ELSE IF IsZero(b) THEN a
    ELSE Fin(a.n * b.d + b.n * a.d, a.d * b.d)

\* Python's a - b.
FSub(a, b) == FAdd(a, FNeg(b))

\* Python's a * b.
FMul(a, b) ==
    LET neg == Negative(a) # Negative(b)
    IN  IF IsNaN(a) \/ IsNaN(b) THEN NaN
        ELSE IF (IsInf(a) /\ IsZero(b)) \/ (IsZero(a) /\ IsInf(b)) THEN NaN
        ELSE IF IsInf(a) \/ IsInf(b) THEN SignedInf(neg)
        ELSE IF IsZero(a) \/ IsZero(b) THEN SignedZero(neg)
        ELSE Fin(a.n * b.n, a.d * b.d)

\* Python's a / b for a divisor b that is not zero (the only use in the code).
FDiv(a, b) ==
    LET neg == Negative(a) # Negative(b)
    IN  IF IsNaN(a) \/ IsNaN(b) THEN NaN
        ELSE IF IsInf(a) /\ IsInf(b) THEN NaN
        ELSE IF IsInf(a) THEN SignedInf(neg)
        ELSE IF IsInf(b) \/ IsZero(a) THEN SignedZero(neg)
        ELSE Fin((IF neg THEN -1 ELSE 1) * Abs(a.n) * b.d, a.d * Abs(b.n))

\* A float the session keeps.
InRange(f) == f.k = "fin" => (Abs(f.n) <= MaxNum /\ f.d <= MaxDen)


\* ----------------------------------------------------------------- objects

\* class MazieMode: one field, default True.
MazieMode(b) == [div0_identity |-> b]
MazieModeDefault == MazieMode(TRUE)

\* class MazieNum: the pair (value, mode).
MazieNum(v, m) == [t |-> "MazieNum", value |-> v, mode |-> m]

\* A Python int: i, or i * 10**400 (beyond the range of a double) when huge.
PyInt(i)     == [t |-> "int", i |-> i, huge |-> FALSE]
PyHugeInt(i) == [t |-> "int", i |-> i, huge |-> TRUE]
PyFloat(f)   == [t |-> "float", value |-> f]
PyBool(v)    == [t |-> "bool", v |-> v]
PyStr        == [t |-> "str"]
None         == [t |-> "NoneType"]

\* The outcome of a call: a returned value, or the exception raised.
Return(v) == [st |-> "ok", val |-> <<v>>]
Raise(e)  == [st |-> e, val |-> <<>>]

\* isinstance(x, (int, float))
IsPlainNumber(x) == x.t \in {"int", "float"}
\* isinstance(x, MazieNum)
IsMazieNum(x) == x.t = "MazieNum"

\* float(x) for a plain number x: an int beyond the doubles raises.
float(x) ==
    IF x.t = "float" THEN Return(x.value)
    ELSE IF x.huge /\ x.i # 0 THEN Raise("OverflowError")
    ELSE Return(Fin(x.i, 1))

\* ------------------------------------------------------------- the program

\* _as_num without its final raise: any other object counts as 0.0.
AsNumOtherIsZero(x, mode) ==
    IF IsMazieNum(x) THEN Return(MazieNum(x.value, mode))
    ELSE IF IsPlainNumber(x)
         THEN LET f == float(x)
              IN  IF f.st = "ok" THEN Return(MazieNum(f.val[1], mode)) ELSE f
    ELSE Return(MazieNum(PZero, mode))

_as_num(x, mode) ==
    IF IsMazieNum(x) THEN Return(MazieNum(x.value, mode))
    ELSE IF IsPlainNumber(x)
         THEN LET f == float(x)
              IN  IF f.st = "ok" THEN Return(MazieNum(f.val[1], mode)) ELSE f
    ELSE Raise("TypeError")

unwrap(self) == self.value

\* __add__ with the operator of __sub__.
AddAsSub(self, other) ==
    LET o == _as_num(other, self.mode)
    IN  IF o.st # "ok" THEN o
        ELSE Return(MazieNum(FSub(self.value, o.val[1].value), self.mode))

__add__(self, other) ==
    LET o == _as_num(other, self.mode)
    IN  IF o.st # "ok" THEN o
        ELSE Return(MazieNum(FAdd(self.value, o.val[1].value), self.mode))

__radd__(self, other) ==
    LET c == _as_num(other, self.mode)
    IN  IF c.st # "ok" THEN c ELSE __add__(c.val[1], self)

__sub__(self, other) ==
    LET o == _as_num(other, self.mode)
    IN  IF o.st # "ok" THEN o
        ELSE Return(MazieNum(FSub(self.value, o.val[1].value), self.mode))

__rsub__(self, other) ==
    LET c == _as_num(other, self.mode)
    IN  IF c.st # "ok" THEN c ELSE __sub__(c.val[1], self)

\* __mul__ returning the mode of a MazieNum right operand.
MulModeOfOther(self, other) ==
    LET o == _as_num(other, self.mode)
    IN  IF o.st # "ok" THEN o
        ELSE Return(MazieNum(FMul(self.value, o.val[1].value),
                             IF IsMazieNum(other) THEN other.mode ELSE self.mode))

__mul__(self, other) ==
    LET o == _as_num(other, self.mode)
    IN  IF o.st # "ok" THEN o
        ELSE Return(MazieNum(FMul(self.value, o.val[1].value), self.mode))

__rmul__(self, other) ==
    LET c == _as_num(other, self.mode)
    IN  IF c.st # "ok" THEN c ELSE __mul__(c.val[1], self)

\* __truediv__ returning the divisor, not the dividend, on a zero divisor.
TrueDivReturnsDivisor(self, other) ==
    LET o == _as_num(other, self.mode)
    IN  IF o.st # "ok" THEN o
        ELSE IF IsZero(o.val[1].value)
             THEN IF self.mode.div0_identity
                  THEN Return(MazieNum(o.val[1].value, self.mode))
                  ELSE Raise("ZeroDivisionError")
        ELSE Return(MazieNum(FDiv(self.value, o.val[1].value), self.mode))

\* __truediv__ deciding by the mode of a MazieNum divisor.
TrueDivByDivisorMode(self, other) ==
    LET o == _as_num(other, self.mode)
        mode == IF IsMazieNum(other) THEN other.mode ELSE self.mode
    IN  IF o.st # "ok" THEN o
        ELSE IF IsZero(o.val[1].value)
             THEN IF mode.div0_identity
                  THEN Return(MazieNum(self.value, self.mode))
                  ELSE Raise("ZeroDivisionError")
        ELSE Return(MazieNum(FDiv(self.value, o.val[1].value), self.mode))

\* __truediv__ without the identity branch: Python's own division.
TrueDivAlwaysRaises(self, other) ==
    LET o == _as_num(other, self.mode)
    IN  IF o.st # "ok" THEN o
        ELSE IF IsZero(o.val[1].value) THEN Raise("ZeroDivisionError")
        ELSE Return(MazieNum(FDiv(self.value, o.val[1].value), self.mode))

__truediv__(self, other) ==
    LET o == _as_num(other, self.mode)
    IN  IF o.st # "ok" THEN o
        ELSE IF IsZero(o.val[1].value)
             THEN IF self.mode.div0_identity
                  THEN Return(MazieNum(self.value, self.mode))
                  ELSE Raise("ZeroDivisionError")
        ELSE Return(MazieNum(FDiv(self.value, o.val[1].value), self.mode))

__rtruediv__(self, other) ==
    LET c == _as_num(other, self.mode)
    IN  IF c.st # "ok" THEN c ELSE __truediv__(c.val[1], self)

\* __neg__ without mode=self.mode: the result gets the default mode.
NegDefaultMode(self) == Return(MazieNum(FNeg(self.value), MazieModeDefault))

__neg__(self) == Return(MazieNum(FNeg(self.value), self.mode))

\* Returns a bool, or raises what float(other) raises.
__eq__(self, other) ==
    IF IsMazieNum(other) THEN Return(PyBool(FEq(self.value, other.value)))
    ELSE IF IsPlainNumber(other)
         THEN LET f == float(other)
              IN  IF f.st = "ok" THEN Return(PyBool(FEq(self.value, f.val[1]))) ELSE f
    ELSE Return(PyBool(FALSE))

\* hash() of a float: floats that compare equal hash alike (both zeros hash
\* as 0), floats that differ hash apart.
HashFloat(f) == IF IsZero(f) THEN <<"fin", 0, 1>> ELSE <<f.k, f.n, f.d>>

\* MazieMode.__hash__, generated by the frozen dataclass: hash((div0_identity,)).
HashMode(m) == <<m.div0_identity>>

\* MazieNum.__hash__, generated by the frozen dataclass (eq=True, frozen=True,
\* no __hash__ in the class body): hash((value, mode)).
__hash__(self) == <<HashFloat(self.value), HashMode(self.mode)>>

\* M(x, mode=None): mode is None or a MazieMode (every MazieMode is truthy).
M(x, mode) ==
    LET f == float(x)
    IN  IF f.st # "ok" THEN f
        ELSE Return(MazieNum(f.val[1], IF mode = None THEN MazieModeDefault ELSE mode))

\* ------------------------------------------------------ the caller's objects

SpecialFloats == {NZero, PInf, NInf, NaN}

\* Plain numbers: ints (one beyond the doubles in each sign) and floats.
Ints   == {PyInt(i) : i \in -MaxArg..MaxArg} \cup {PyHugeInt(1), PyHugeInt(-1)}
Floats == {PyFloat(Fin(i, 2)) : i \in -MaxArg..MaxArg}
              \cup {PyFloat(f) : f \in SpecialFloats}
PlainNumbers == Ints \cup Floats

\* Objects that are neither plain numbers nor MazieNums.
Others == {PyStr, None}

\* MazieNums the caller constructs directly, with the modes in ms.
Nums(ms) ==
    {MazieNum(v, MazieMode(m)) : v \in {PZero, NZero, Fin(1, 1), Fin(-2, 1), PInf, NaN},
                                 m \in ms}

\* The mode arguments of M: absent (None) or a MazieMode.
ModeArgs(ms) == {None} \cup {MazieMode(m) : m \in ms}

\* ------------------------------------------------------------- the session

\* The record of a call and its outcome.
Called(op, a, b, out) == [op |-> op, a |-> a, b |-> b, st |-> out.st, val |-> out.val]

\* A returned MazieNum becomes acc; after an exception acc stays.
Kept(out) == IF out.st = "ok" THEN out.val[1] ELSE acc

\* The session follows a result only while its value is in the range kept.
Follows(out) == out.st = "ok" => InRange(out.val[1].value)

DoM(x, m) ==
    LET out == M(x, m)
    IN  /\ Follows(out)
        /\ last' = Called("M", x, m, out)
        /\ acc' = Kept(out)

DoAdd(b) ==
    LET out == __add__(acc, b)
    IN  /\ Follows(out)
        /\ last' = Called("add", acc, b, out)
        /\ acc' = Kept(out)

DoRAdd(b) ==
    LET out == __radd__(acc, b)
    IN  /\ Follows(out)
        /\ last' = Called("radd", acc, b, out)
        /\ acc' = Kept(out)

DoSub(b) ==
    LET out == __sub__(acc, b)
    IN  /\ Follows(out)
        /\ last' = Called("sub", acc, b, out)
        /\ acc' = Kept(out)

DoRSub(b) ==
    LET out == __rsub__(acc, b)
    IN  /\ Follows(out)
        /\ last' = Called("rsub", acc, b, out)
        /\ acc' = Kept(out)

DoMul(b) ==
    LET out == __mul__(acc, b)
    IN  /\ Follows(out)
        /\ last' = Called("mul", acc, b, out)
        /\ acc' = Kept(out)

DoRMul(b) ==
    LET out == __rmul__(acc, b)
    IN  /\ Follows(out)
        /\ last' = Called("rmul", acc, b, out)
        /\ acc' = Kept(out)

DoTrueDiv(b) ==
    LET out == __truediv__(acc, b)
    IN  /\ Follows(out)
        /\ last' = Called("truediv", acc, b, out)
        /\ acc' = Kept(out)

DoRTrueDiv(b) ==
    LET out == __rtruediv__(acc, b)
    IN  /\ Follows(out)
        /\ last' = Called("rtruediv", acc, b, out)
        /\ acc' = Kept(out)

DoNeg ==
    LET out == __neg__(acc)
    IN  /\ Follows(out)
        /\ last' = Called("neg", acc, None, out)
        /\ acc' = Kept(out)

\* a == b: the outcome is a bool (or an exception); acc stays.
DoEq(b) ==
    /\ last' = Called("eq", acc, b, __eq__(acc, b))
    /\ acc' = acc

\* The operands of a call: the caller's objects.  The accumulator itself is
\* an operand too (x + x, x / x), see NextOver.
Args(ms) == PlainNumbers \cup Others \cup Nums(ms)

\* The session over MazieNums of the modes ms.
InitOver(ms) ==
    /\ acc \in Nums(ms)
    /\ last = [op |-> "start", a |-> acc, b |-> None, st |-> "ok", val |-> <<>>]

NextOver(ms) ==
    \/ \E x \in PlainNumbers, m \in ModeArgs(ms) : DoM(x, m)
    \/ \E b \in Args(ms) : DoAdd(b)
    \/ \E b \in Args(ms) : DoSub(b)
    \/ \E b \in Args(ms) : DoMul(b)
    \/ \E b \in Args(ms) : DoTrueDiv(b)
    \/ \E b \in Args(ms) : DoEq(b)
    \/ DoAdd(acc)
    \/ DoSub(acc)
    \/ DoMul(acc)
    \/ DoTrueDiv(acc)
    \/ DoEq(acc)
    \/ \E b \in PlainNumbers \cup Others : DoRAdd(b)
    \/ \E b \in PlainNumbers \cup Others : DoRSub(b)
    \/ \E b \in PlainNumbers \cup Others : DoRMul(b)
    \/ \E b \in PlainNumbers \cup Others : DoRTrueDiv(b)
    \/ DoNeg

Init == InitOver(BOOLEAN)
Next == NextOver(BOOLEAN)
Spec == Init /\ [][Next]_vars

\* The session in which every MazieNum is made with div0_identity = True.
InitIdentity == InitOver({TRUE})
NextIdentity == NextOver({TRUE})
SpecIdentity == InitIdentity /\ [][NextIdentity]_vars

\* -------------------------------------------------------------- properties

\* The operand classes of the claims, read off the operand itself.
BinaryOps    == {"add", "sub", "mul", "truediv"}
ReflectedOps == {"radd", "rsub", "rmul", "rtruediv"}

\* A plain number that float() converts: every float, every int of the range.
Convertible(x) == IsPlainNumber(x) /\ (x.t = "int" => ~x.huge)
\* The number a convertible plain number stands for.
NumberOf(x) == IF x.t = "float" THEN x.value ELSE Fin(x.i, 1)
\* An operand whose value is zero: 0, 0.0, -0.0, or a MazieNum holding one.
ZeroValued(x) ==
    \/ IsMazieNum(x) /\ x.value \in {PZero, NZero}
    \/ x.t = "float" /\ x.value \in {PZero, NZero}
    \/ x.t = "int" /\ ~x.huge /\ x.i = 0
\* The call returned a value.
Returned == last.st = "ok" /\ Len(last.val) = 1

\* C1: a division by a zero-valued divisor (a plain zero or a MazieNum of
\* either mode holding a zero), on a dividend whose mode has div0_identity,
\* raises nothing and returns the dividend's value and mode.
C1_IdentityDivision ==
    (last.op = "truediv" /\ last.a.mode.div0_identity /\ ZeroValued(last.b))
        => /\ Returned
           /\ IsMazieNum(last.val[1])
           /\ last.val[1].value = last.a.value
           /\ last.val[1].mode = last.a.mode

C1_Witness ==
    /\ last.op = "truediv"
    /\ last.a.mode.div0_identity
    /\ IsMazieNum(last.b) /\ last.b.value = NZero /\ ~last.b.mode.div0_identity
    /\ last.a.value = Fin(3, 2)
    /\ Returned

\* C2: ZeroDivisionError is raised exactly by a division whose divisor is
\* zero-valued and whose dividend's mode has div0_identity false; the
\* divisor's mode plays no part; no other operation raises it.  (For n / x
\* the dividend is n coerced with x.mode, the divisor x.)
C2_DivisionByZeroIff ==
    (last.st = "ZeroDivisionError")
        <=> \/ /\ last.op = "truediv"
               /\ ZeroValued(last.b)
               /\ ~last.a.mode.div0_identity
            \/ /\ last.op = "rtruediv"
               /\ Convertible(last.b)
               /\ ZeroValued(last.a)
               /\ ~last.a.mode.div0_identity

C2_Witness ==
    /\ last.op = "truediv"
    /\ last.st = "ZeroDivisionError"
    /\ IsMazieNum(last.b) /\ last.b.mode.div0_identity

\* C3: a successful add, sub, mul, div or neg (and a reflected operation)
\* returns the mode of the MazieNum it was invoked on, whatever the other
\* operand; so the accumulator of a chain keeps its mode at every step.
C3_ModeOfSelf ==
    (last.op \in BinaryOps \cup ReflectedOps \cup {"neg"})
        => /\ last.st = "ok" => last.val[1].mode = last.a.mode
           /\ acc.mode = last.a.mode

C3_Witness ==
    /\ last.op = "add"
    /\ IsMazieNum(last.b) /\ last.b.mode # last.a.mode
    /\ Returned
    /\ ~last.a.mode.div0_identity

\* The value a reflected operation n op x is claimed to have: n on the left.
ReflectedValue(op, n, x) ==
    CASE op = "radd"     -> FAdd(n, x)
      [] op = "rsub"     -> FSub(n, x)
      [] op = "rmul"     -> FMul(n, x)
      [] op = "rtruediv" -> IF x \in {PZero, NZero} THEN n ELSE FDiv(n, x)

\* What C4 says of the reflected call recorded in last, for the plain number
\* n = last.b and the MazieNum x = last.a.
ReflectedAsClaimed ==
    IF last.op = "rtruediv" /\ ZeroValued(last.a) /\ ~last.a.mode.div0_identity
    THEN last.st = "ZeroDivisionError"
    ELSE /\ Returned
         /\ last.val[1].value = ReflectedValue(last.op, NumberOf(last.b), last.a.value)
         /\ last.val[1].mode = last.a.mode

\* C4: for every plain number n and MazieNum x, n + x, n - x, n * x, n / x
\* have the value of the operation with n on the left (n - x.value, not
\* x.value - n; n / x.value; n itself when x is zero-valued and x.mode has
\* div0_identity, a division by zero error when it has not) and x's mode.
C4_ReflectedEveryNumber ==
    (last.op \in ReflectedOps /\ IsPlainNumber(last.b)) => ReflectedAsClaimed

\* C4 on the plain numbers float() converts (every float, every int within
\* the doubles): there the reflected operations are as claimed.
C4_ReflectedConvertible ==
    (last.op \in ReflectedOps /\ Convertible(last.b)) => ReflectedAsClaimed

C4_Witness ==
    /\ last.op = "rsub"
    /\ last.b = PyInt(2) /\ last.a.value = Fin(1, 2)
    /\ Returned /\ last.val[1].value = Fin(3, 2)

\* C5: a == other never raises; it is the equality of the values for a
\* MazieNum (modes ignored), the equality of a.value with the number for a
\* plain number, and False for any other object.
C5_EqualityNeverRaises ==
    (last.op = "eq")
        => /\ last.st = "ok"
           /\ last.val[1] = PyBool(
                 IF IsMazieNum(last.b) THEN FEq(last.a.value, last.b.value)
                 ELSE IF IsPlainNumber(last.b)
                      THEN FEq(last.a.value, NumberOf(last.b))
                 ELSE FALSE)

\* C5 on operands other than an int beyond the doubles.
C5_EqualityConvertible ==
    (last.op = "eq" /\ (IsPlainNumber(last.b) => Convertible(last.b)))
        => /\ last.st = "ok"
           /\ last.val[1] = PyBool(
                 IF IsMazieNum(last.b) THEN FEq(last.a.value, last.b.value)
                 ELSE IF IsPlainNumber(last.b)
                      THEN FEq(last.a.value, NumberOf(last.b))
                 ELSE FALSE)

\* op(M(y, m), x): the other side of a commuted add or mul.
Commuted(op, y, m, x) ==
    LET q == M(y, m)
    IN  IF q.st # "ok" THEN q
        ELSE IF op = "add" THEN __add__(q.val[1], x) ELSE __mul__(q.val[1], x)

\* The plain numbers x and mode arguments m with M(x, m) = v.
MadeFrom(v) ==
    {xm \in PlainNumbers \X ModeArgs(BOOLEAN) : M(xm[1], xm[2]) = Return(v)}

\* C6 as claimed: for all plain numbers x, y and whatever modes, add(M(x), y)
\* == add(M(y), x) and mul(M(x), y) == mul(M(y), x).  The left side is the
\* call recorded in last, on an accumulator that M(x) returns; stated here
\* on the plain numbers float() converts, where the claim already fails.
C6_CommuteAsClaimed ==
    (last.op \in {"add", "mul"} /\ Convertible(last.b))
        => \A xm \in MadeFrom(last.a), m \in ModeArgs(BOOLEAN) :
              LET rhs == Commuted(last.op, last.b, m, xm[1])
              IN  /\ last.st = "ok"
                  /\ rhs.st = "ok"
                  /\ __eq__(last.val[1], rhs.val[1]) = Return(PyBool(TRUE))

\* C6 as amended: the two sides raise the same error (OverflowError, when x
\* or y is an int beyond the doubles) or both return; the returned values
\* compare equal, modes ignored, unless the result is nan, and then both are
\* nan (and compare unequal).
C6_CommuteUpToNaN ==
    /\ (last.op \in {"add", "mul"} /\ IsPlainNumber(last.b))
          => \A xm \in MadeFrom(last.a), m \in ModeArgs(BOOLEAN) :
                LET rhs == Commuted(last.op, last.b, m, xm[1])
                IN  IF last.st # "ok" THEN rhs.st = last.st
                    ELSE /\ rhs.st = "ok"
                         /\ IF IsNaN(last.val[1].value)
                            THEN /\ IsNaN(rhs.val[1].value)
                                 /\ __eq__(last.val[1], rhs.val[1]) = Return(PyBool(FALSE))
                            ELSE __eq__(last.val[1], rhs.val[1]) = Return(PyBool(TRUE))
    /\ (last.op = "M" /\ last.st # "ok")
          => \A y \in PlainNumbers, m \in ModeArgs(BOOLEAN), op \in {"add", "mul"} :
                Commuted(op, y, m, last.a).st = last.st

C6_Witness ==
    /\ last.op = "mul" /\ last.b = PyInt(2)
    /\ ~last.a.mode.div0_identity
    /\ <<PyFloat(Fin(-1, 2)), MazieMode(FALSE)>> \in MadeFrom(last.a)
    /\ Returned /\ last.val[1].value = Fin(-1, 1)

\* C7: a binary operation, normal or reflected, whose other operand is
\* neither a plain number nor a MazieNum raises TypeError and returns
\* nothing, in both modes and whatever the value of self (no zero test or
\* division by zero handling comes first).
C7_TypeError ==
    (/\ last.op \in BinaryOps \cup ReflectedOps
     /\ ~IsPlainNumber(last.b)
     /\ ~IsMazieNum(last.b))
        => /\ last.st = "TypeError"
           /\ last.val = <<>>
           /\ acc = last.a

C7_Witness ==
    /\ last.op = "rtruediv"
    /\ last.b = PyStr
    /\ last.a.value = PZero /\ ~last.a.mode.div0_identity
    /\ last.st = "TypeError"

\* v is the float a with its sign flipped.
Negated(v, a) ==
    IF IsNaN(a) THEN IsNaN(v)
    ELSE /\ ~IsNaN(v)
         /\ Negative(v) # Negative(a)
         /\ IsInf(v) = IsInf(a)
         /\ IsZero(v) = IsZero(a)
         /\ (v.k = "fin" /\ a.k = "fin") => (v.n = -a.n /\ v.d = a.d)

\* C8: neg(a) has the value -a.value and the mode of a, and negating the
\* result gives a back, value and mode.
C8_NegInvolution ==
    (last.op = "neg")
        => /\ Returned
           /\ Negated(last.val[1].value, last.a.value)
           /\ last.val[1].mode = last.a.mode
           /\ __neg__(last.val[1]) = Return(last.a)

C8_Witness ==
    /\ last.op = "neg"
    /\ last.a.value = Fin(-3, 2) /\ ~last.a.mode.div0_identity
    /\ Returned

\* C9: in a session whose MazieNums are all made with div0_identity = True,
\* no chain of operations, with results reused as either operand and with
\* zero divisors, raises ZeroDivisionError, and every result has
\* div0_identity = True.
C9_IdentityIsClosed ==
    /\ last.st # "ZeroDivisionError"
    /\ acc.mode.div0_identity
    /\ (last.op \in BinaryOps \cup ReflectedOps \cup {"neg", "M"} /\ last.st = "ok")
          => last.val[1].mode.div0_identity

\* An intermediate result (3/2 is no operand of the caller and no value M
\* returns) divided by a zero-valued operand.
C9_Witness ==
    /\ last.op = "truediv"
    /\ last.a.value = Fin(3, 2)
    /\ ZeroValued(last.b)
    /\ Returned /\ last.val[1].value = Fin(3, 2)

\* C10: two MazieNums that compare equal have the same hash.
C10_EqualImpliesSameHash ==
    (last.op = "eq" /\ IsMazieNum(last.b) /\ last.st = "ok" /\ last.val[1].v)
        => __hash__(last.a) = __hash__(last.b)

\* C10 on MazieNums of one mode: there equal values hash alike.
C10_SameModeSameHash ==
    (/\ last.op = "eq" /\ IsMazieNum(last.b) /\ last.st = "ok" /\ last.val[1].v
     /\ last.a.mode = last.b.mode)
        => __hash__(last.a) = __hash__(last.b)

=============================================================================
